---- MODULE Spec2Model ----
(***************************************************************************)
(* Seat-map engine of the airline reservation program (airplane.py).       *)
(* An Airplane object is a record; each method is an operator that takes   *)
(* the object and returns the object after the call together with the      *)
(* returned value.  Seat names are sequences of one-character strings, so  *)
(* that the parsing (ord, int) and formatting (chr, str) of the code is    *)
(* computed, not assumed.                                                  *)
(* The fleet registry and its snapshots (airline.py) follow: an Airline    *)
(* object, the files of the working directory, and the methods of Airline  *)
(* as operators on both.  The command line driver (cli.py) comes last: one  *)
(* run of main is one step, from the files it finds to the files it leaves.*)
(***************************************************************************)
EXTENDS Integers, Sequences, FiniteSets, TLC

VARIABLES plane, last, airline, files, did

vars == <<plane, last, airline, files, did>>

\* ---------------------------------------------------------------- bounds
MaxRowCount == 2
MaxNumSeats == 3

\* ------------------------------------------------------ python built-ins
\* None, as returned by get_seat_index (every real index is >= 0)
None == -1

Letters == <<"@", "A", "B", "C", "D", "E", "F", "G">>
Digits == <<"0", "1", "2", "3", "4", "5", "6", "7", "8", "9">>
Chars == {Letters[i] : i \in 1..Len(Letters)} \cup {Digits[i] : i \in 1..Len(Digits)}
             \cup {" ", "+", "-", "_", "x"}

IndexOf(seq, c) == CHOOSE i \in 1..Len(seq) : seq[i] = c

IsDigit(c) == \E i \in 1..Len(Digits) : Digits[i] = c

ord(c) ==
    IF \E i \in 1..Len(Letters) : Letters[i] = c THEN 63 + IndexOf(Letters, c)
    ELSE IF IsDigit(c) THEN 47 + IndexOf(Digits, c)
    ELSE CASE c = " " -> 32
           [] c = "+" -> 43
           [] c = "-" -> 45
           [] c = "_" -> 95
           [] c = "x" -> 120

chr(n) == CHOOSE c \in Chars : ord(c) = n

\* str(i) for an integer i: decimal digits, '-' in front of a negative one
RECURSIVE str_nat(_)
str_nat(i) ==
    IF i < 10 THEN <<Digits[i + 1]>>
    ELSE str_nat(i \div 10) \o <<Digits[(i % 10) + 1]>>

str(i) == IF i < 0 THEN <<"-">> \o str_nat(0 - i) ELSE str_nat(i)

RECURSIVE lstrip(_)
lstrip(s) == IF s # <<>> /\ Head(s) = " " THEN lstrip(Tail(s)) ELSE s

RECURSIVE rstrip(_)
rstrip(s) ==
    IF s # <<>> /\ s[Len(s)] = " " THEN rstrip(SubSeq(s, 1, Len(s) - 1)) ELSE s

RECURSIVE digits_value(_)
digits_value(s) ==
    IF s = <<>> THEN 0
    ELSE IF s[Len(s)] = "_" THEN digits_value(SubSeq(s, 1, Len(s) - 1))
    ELSE 10 * digits_value(SubSeq(s, 1, Len(s) - 1)) + (ord(s[Len(s)]) - 48)

\* int(s) for a string s: surrounding blanks are dropped, one sign is
\* allowed, then digits, with single underscores between digits; anything
\* else raises ValueError
int(s) ==
    LET t == rstrip(lstrip(s))
        signed == t # <<>> /\ t[1] \in {"+", "-"}
        body == IF signed THEN Tail(t) ELSE t
        wellformed ==
            /\ body # <<>>
            /\ \A i \in 1..Len(body) : IsDigit(body[i]) \/ body[i] = "_"
            /\ IsDigit(body[1])
            /\ IsDigit(body[Len(body)])
            /\ \A i \in 1..(Len(body) - 1) : ~(body[i] = "_" /\ body[i + 1] = "_")
    IN  IF ~wellformed THEN [ValueError |-> TRUE, value |-> 0]
        ELSE [ValueError |-> FALSE,
              value |-> IF signed /\ t[1] = "-" THEN 0 - digits_value(body)
                        ELSE digits_value(body)]

\* ------------------------------------------------------------- Airplane
RECURSIVE count_seats(_)
count_seats(row_layout) ==
    IF row_layout = <<>> THEN 0
    ELSE (IF Head(row_layout) = "x" THEN 1 ELSE 0) + count_seats(Tail(row_layout))

Airplane(name, row_count, row_layout) ==
    [name |-> name,
     row_count |-> row_count,
     row_layout |-> row_layout,
     seats_per_row |-> count_seats(row_layout),
     reserved_seats |-> {}]

get_seat_index(self, seat_name) ==
    IF Len(seat_name) < 2 THEN None
    ELSE LET row == ord(seat_name[1]) - ord("A")
             parsed == int(Tail(seat_name))
             position == parsed.value
         IN  IF parsed.ValueError THEN None
             ELSE IF row < 0 \/ row >= self.row_count
                     \/ position < 0 \/ position >= self.seats_per_row
                  THEN None
                  ELSE row * self.seats_per_row + position

\* mutant: positions written one-based
get_seat_name_plus_one(self, row, position) ==
    <<chr(ord("A") + row)>> \o str(position + 1)

get_seat_name(self, row, position) == <<chr(ord("A") + row)>> \o str(position)

\* the loop of check_consecutive_seats from iteration i on: False at the
\* first reserved seat, True when the range is exhausted
RECURSIVE check_loop(_, _, _, _, _)
check_loop(self, start_row, start_pos, i, num_seats) ==
    IF i >= num_seats THEN TRUE
    ELSE IF get_seat_name(self, start_row, start_pos + i) \in self.reserved_seats
         THEN FALSE
         ELSE check_loop(self, start_row, start_pos, i + 1, num_seats)

\* mutant: only the first seat of the block is looked up
check_consecutive_seats_first_only(self, start_seat_name, num_seats) ==
    IF Len(start_seat_name) < 2 THEN FALSE
    ELSE LET start_row == ord(start_seat_name[1]) - ord("A")
             parsed == int(Tail(start_seat_name))
             start_pos == parsed.value
         IN  IF parsed.ValueError THEN FALSE
             ELSE IF start_row < 0 \/ start_row >= self.row_count
                     \/ start_pos < 0 \/ start_pos + num_seats > self.seats_per_row
                  THEN FALSE
                  ELSE check_loop(self, start_row, start_pos, 0,
                                  IF num_seats > 1 THEN 1 ELSE num_seats)

\* mutant: a block that ends on the last seat of the row is refused
check_consecutive_seats_exclusive(self, start_seat_name, num_seats) ==
    IF Len(start_seat_name) < 2 THEN FALSE
    ELSE LET start_row == ord(start_seat_name[1]) - ord("A")
             parsed == int(Tail(start_seat_name))
             start_pos == parsed.value
         IN  IF parsed.ValueError THEN FALSE
             ELSE IF start_row < 0 \/ start_row >= self.row_count
                     \/ start_pos < 0 \/ start_pos + num_seats >= self.seats_per_row
                  THEN FALSE
                  ELSE check_loop(self, start_row, start_pos, 0, num_seats)

check_consecutive_seats(self, start_seat_name, num_seats) ==
    IF Len(start_seat_name) < 2 THEN FALSE
    ELSE LET start_row == ord(start_seat_name[1]) - ord("A")
             parsed == int(Tail(start_seat_name))
             start_pos == parsed.value
         IN  IF parsed.ValueError THEN FALSE
             ELSE IF start_row < 0 \/ start_row >= self.row_count
                     \/ start_pos < 0 \/ start_pos + num_seats > self.seats_per_row
                  THEN FALSE
                  ELSE check_loop(self, start_row, start_pos, 0, num_seats)

book_seat(self, seat_name) ==
    IF seat_name \in self.reserved_seats
    THEN [self |-> self, ret |-> FALSE]
    ELSE [self |-> [self EXCEPT !.reserved_seats = @ \cup {seat_name}], ret |-> TRUE]

\* the booking loop of book_seats from iteration i on
RECURSIVE book_loop(_, _, _, _, _)
book_loop(self, start_row, start_pos, i, num_seats) ==
    IF i >= num_seats THEN self
    ELSE book_loop([self EXCEPT !.reserved_seats =
                        @ \cup {get_seat_name(self, start_row, start_pos + i)}],
                   start_row, start_pos, i + 1, num_seats)

\* mutant: the seats are booked before the check's verdict is returned
book_seats_partial(self, start_seat_name, num_seats) ==
    IF Len(start_seat_name) < 2 \/ int(Tail(start_seat_name)).ValueError
    THEN [self |-> self, ret |-> FALSE]
    ELSE LET start_row == ord(start_seat_name[1]) - ord("A")
             start_pos == int(Tail(start_seat_name)).value
         IN  [self |-> book_loop(self, start_row, start_pos, 0, num_seats),
              ret |-> check_consecutive_seats(self, start_seat_name, num_seats)]

\* mutant: the start position is taken as one-based
book_seats_one_based(self, start_seat_name, num_seats) ==
    IF ~check_consecutive_seats(self, start_seat_name, num_seats)
    THEN [self |-> self, ret |-> FALSE]
    ELSE LET start_row == ord(start_seat_name[1]) - ord("A")
             start_pos == int(Tail(start_seat_name)).value - 1
         IN  [self |-> book_loop(self, start_row, start_pos, 0, num_seats),
              ret |-> TRUE]

book_seats(self, start_seat_name, num_seats) ==
    IF ~check_consecutive_seats(self, start_seat_name, num_seats)
    THEN [self |-> self, ret |-> FALSE]
    ELSE LET start_row == ord(start_seat_name[1]) - ord("A")
             start_pos == int(Tail(start_seat_name)).value
         IN  [self |-> book_loop(self, start_row, start_pos, 0, num_seats),
              ret |-> TRUE]

cancel_seat(self, seat_name) ==
    IF seat_name \in self.reserved_seats
    THEN [self |-> [self EXCEPT !.reserved_seats = @ \ {seat_name}], ret |-> TRUE]
    ELSE [self |-> self, ret |-> FALSE]

\* the loop of cancel_seats from iteration i on: each reserved seat is
\* removed as it is met, and the first seat that is not reserved returns
\* False with the removals made so far kept
RECURSIVE cancel_loop(_, _, _, _, _)
cancel_loop(self, start_row, start_pos, i, num_seats) ==
    IF i >= num_seats THEN [self |-> self, ret |-> TRUE]
    ELSE LET seat_name == get_seat_name(self, start_row, start_pos + i)
         IN  IF seat_name \in self.reserved_seats
             THEN cancel_loop([self EXCEPT !.reserved_seats = @ \ {seat_name}],
                              start_row, start_pos, i + 1, num_seats)
             ELSE [self |-> self, ret |-> FALSE]

\* mutant: the last seat of the block is left reserved
cancel_seats_keep_last(self, start_seat_name, num_seats) ==
    IF Len(start_seat_name) < 2 THEN [self |-> self, ret |-> FALSE]
    ELSE LET start_row == ord(start_seat_name[1]) - ord("A")
             parsed == int(Tail(start_seat_name))
             start_pos == parsed.value
         IN  IF parsed.ValueError THEN [self |-> self, ret |-> FALSE]
             ELSE IF start_row < 0 \/ start_row >= self.row_count
                     \/ start_pos < 0 \/ start_pos + num_seats > self.seats_per_row
                  THEN [self |-> self, ret |-> FALSE]
                  ELSE cancel_loop(self, start_row, start_pos, 0, num_seats - 1)

\* mutant: a block that ends on the last seat of the row is refused
cancel_seats_exclusive(self, start_seat_name, num_seats) ==
    IF Len(start_seat_name) < 2 THEN [self |-> self, ret |-> FALSE]
    ELSE LET start_row == ord(start_seat_name[1]) - ord("A")
             parsed == int(Tail(start_seat_name))
             start_pos == parsed.value
         IN  IF parsed.ValueError THEN [self |-> self, ret |-> FALSE]
             ELSE IF start_row < 0 \/ start_row >= self.row_count
                     \/ start_pos < 0 \/ start_pos + num_seats >= self.seats_per_row
                  THEN [self |-> self, ret |-> FALSE]
                  ELSE cancel_loop(self, start_row, start_pos, 0, num_seats)

\* mutant: the verdict is returned and the seats stay reserved
cancel_seats_no_release(self, start_seat_name, num_seats) ==
    IF Len(start_seat_name) < 2 THEN [self |-> self, ret |-> FALSE]
    ELSE LET start_row == ord(start_seat_name[1]) - ord("A")
             parsed == int(Tail(start_seat_name))
             start_pos == parsed.value
         IN  IF parsed.ValueError THEN [self |-> self, ret |-> FALSE]
             ELSE IF start_row < 0 \/ start_row >= self.row_count
                     \/ start_pos < 0 \/ start_pos + num_seats > self.seats_per_row
                  THEN [self |-> self, ret |-> FALSE]
                  ELSE [self |-> self,
                        ret |-> cancel_loop(self, start_row, start_pos, 0, num_seats).ret]

cancel_seats(self, start_seat_name, num_seats) ==
    IF Len(start_seat_name) < 2 THEN [self |-> self, ret |-> FALSE]
    ELSE LET start_row == ord(start_seat_name[1]) - ord("A")
             parsed == int(Tail(start_seat_name))
             start_pos == parsed.value
         IN  IF parsed.ValueError THEN [self |-> self, ret |-> FALSE]
             ELSE IF start_row < 0 \/ start_row >= self.row_count
                     \/ start_pos < 0 \/ start_pos + num_seats > self.seats_per_row
                  THEN [self |-> self, ret |-> FALSE]
                  ELSE cancel_loop(self, start_row, start_pos, 0, num_seats)

\* set(list)
set(list) == {list[i] : i \in 1..Len(list)}

\* mutant: the airplane is built without its reserved seats
from_dict_unreserved(data) == Airplane(data.name, data.row_count, data.row_layout)

from_dict(data) ==
    [Airplane(data.name, data.row_count, data.row_layout)
        EXCEPT !.reserved_seats = set(data.reserved_seats)]

\* ------------------------------------------------ Airplane.name, to_dict
\* The record field name stands for the attribute _name, which __init__
\* sets and the getter returns.
name_getter(self) == self.name

\* mutant: the setter writes the attribute the getter reads
name_setter_to_name(self, new_name) ==
    IF rstrip(lstrip(new_name)) = <<>>
    THEN [self |-> self, raised |-> "ValueError"]
    ELSE [self |-> [self EXCEPT !.name = new_name], raised |-> ""]

\* The setter validates the new name and stores it in the attribute
\* _airplane_name, which it creates on the object.
name_setter(self, new_name) ==
    IF rstrip(lstrip(new_name)) = <<>>
    THEN [self |-> self, raised |-> "ValueError"]
    ELSE [self |-> [a \in DOMAIN self \cup {"_airplane_name"} |->
                        IF a = "_airplane_name" THEN new_name ELSE self[a]],
          raised |-> ""]

\* list(s) for a set s: its members in an order the caller cannot choose;
\* order is some listing of seat names, and s comes out in that order
list(s, order) == SelectSeq(order, LAMBDA x : x \in s)

\* mutant: the dictionary lists no reserved seat
to_dict_no_seats(self, order) ==
    [name |-> name_getter(self),
     row_count |-> self.row_count,
     row_layout |-> self.row_layout,
     reserved_seats |-> <<>>]

to_dict(self, order) ==
    [name |-> name_getter(self),
     row_count |-> self.row_count,
     row_layout |-> self.row_layout,
     reserved_seats |-> list(self.reserved_seats, order)]

\* ------------------------------------------------------ more built-ins
LowerCase == <<"@", "a", "b", "c", "d", "e", "f", "g">>

\* str.lower(), one character at a time
lower(s) ==
    [i \in 1..Len(s) |->
        IF \E j \in 2..Len(Letters) : Letters[j] = s[i]
        THEN LowerCase[IndexOf(Letters, s[i])]
        ELSE s[i]]

\* str.replace(old, new) for one-character old and new
replace(s, old, new) == [i \in 1..Len(s) |-> IF s[i] = old THEN new ELSE s[i]]

endswith(s, suffix) ==
    /\ Len(s) >= Len(suffix)
    /\ SubSeq(s, Len(s) - Len(suffix) + 1, Len(s)) = suffix

DotSnap == <<".", "s", "n", "a", "p">>

\* a dict that keeps insertion order: a sequence of entries [key, value]
dict_keys(d) == [i \in 1..Len(d) |-> d[i].key]

dict_has(d, k) == \E i \in 1..Len(d) : d[i].key = k

dict_get(d, k) == d[CHOOSE i \in 1..Len(d) : d[i].key = k].value

dict_set(d, k, v) ==
    IF dict_has(d, k)
    THEN [i \in 1..Len(d) |-> IF d[i].key = k THEN [key |-> k, value |-> v] ELSE d[i]]
    ELSE Append(d, [key |-> k, value |-> v])

dict_del(d, k) == SelectSeq(d, LAMBDA e : e.key # k)

\* ---------------------------------------------------------------- yaml
\* A document is a tree of nodes [tag, text, items]: a scalar carries its
\* text and the tag it resolves to ("int" or "str"), a sequence its nodes, a
\* mapping its <<key, node>> pairs in the order written.  The tag "null" is
\* the empty document and "invalid" a text that is not YAML.
Scalar(tag, text) == [tag |-> tag, text |-> text, items |-> <<>>]

Collection(tag, items) == [tag |-> tag, text |-> <<>>, items |-> items]

\* yaml.dump of an airplane dictionary, keys in insertion order
dump_airplane(d) ==
    Collection("map",
        <<<<"name", Scalar("str", d.name)>>,
          <<"row_count", Scalar("int", str(d.row_count))>>,
          <<"row_layout", Scalar("str", d.row_layout)>>,
          <<"reserved_seats",
            Collection("seq", [i \in 1..Len(d.reserved_seats) |->
                                  Scalar("str", d.reserved_seats[i])])>>>>)

\* yaml.dump(data, sort_keys=False) of an airline dictionary
yaml_dump(data) ==
    Collection("map",
        <<<<"name", Scalar("str", data.name)>>,
          <<"airplanes",
            Collection("seq", [i \in 1..Len(data.airplanes) |->
                                  dump_airplane(data.airplanes[i])])>>>>)

\* the value of a key of a mapping: the last pair that has the key
map_value(items, k) ==
    items[CHOOSE i \in 1..Len(items) :
              /\ items[i][1] = k
              /\ \A j \in (i + 1)..Len(items) : items[j][1] # k][2]

\* yaml.safe_load of a document that is YAML
RECURSIVE yaml_safe_load(_)
yaml_safe_load(node) ==
    CASE node.tag = "int" -> int(node.text).value
      [] node.tag = "str" -> node.text
      [] node.tag = "seq" ->
            [i \in 1..Len(node.items) |-> yaml_safe_load(node.items[i])]
      [] node.tag = "map" ->
            [k \in {node.items[i][1] : i \in 1..Len(node.items)} |->
                yaml_safe_load(map_value(node.items, k))]

\* "if data:" on what safe_load returned
falsy(node) ==
    \/ node.tag = "null"
    \/ node.tag \in {"seq", "map"} /\ node.items = <<>>
    \/ node.tag = "str" /\ node.text = <<>>
    \/ node.tag = "int" /\ int(node.text).value = 0

\* -------------------------------------------------------------- Airline
Airline(name) ==
    [name |-> name,
     airplanes |-> <<>>,
     default_snapshot_filename |-> replace(lower(name), " ", "_") \o DotSnap]

\* reading an attribute of an object: AttributeError when it has none
getattr(obj, attr) == IF attr \in DOMAIN obj THEN obj[attr] ELSE <<"AttributeError">>

\* mutant: a second add under the same name replaces the airplane
add_airplane_replace(self, airplane_name, row_count, row_layout) ==
    [self |-> [self EXCEPT !.airplanes =
                  dict_set(@, airplane_name,
                           Airplane(airplane_name, row_count, row_layout))],
     ret |-> ~dict_has(self.airplanes, airplane_name)]

add_airplane(self, airplane_name, row_count, row_layout) ==
    IF dict_has(self.airplanes, airplane_name)
    THEN [self |-> self, ret |-> FALSE]
    ELSE [self |-> [self EXCEPT !.airplanes =
                        dict_set(@, airplane_name,
                                 Airplane(airplane_name, row_count, row_layout))],
          ret |-> TRUE]

\* mutant: deletes the oldest entry where the name is registered
delete_airplane_oldest(self, airplane_name) ==
    IF dict_has(self.airplanes, airplane_name)
    THEN [self |-> [self EXCEPT !.airplanes = Tail(@)], ret |-> TRUE]
    ELSE [self |-> self, ret |-> FALSE]

delete_airplane(self, airplane_name) ==
    IF dict_has(self.airplanes, airplane_name)
    THEN [self |-> [self EXCEPT !.airplanes = dict_del(@, airplane_name)],
          ret |-> TRUE]
    ELSE [self |-> self, ret |-> FALSE]

\* get_airplane where the name is registered (None otherwise)
get_airplane(self, airplane_name) == dict_get(self.airplanes, airplane_name)

get_airplane_names(self) == dict_keys(self.airplanes)

\* mutant: only the airplane registered first is written
Airline_to_dict_first_only(self, order) ==
    [name |-> self.name,
     airplanes |-> [i \in 1..(IF Len(self.airplanes) > 1 THEN 1 ELSE Len(self.airplanes)) |->
                       to_dict(self.airplanes[i].value, order)]]

Airline_to_dict(self, order) ==
    [name |-> self.name,
     airplanes |-> [i \in 1..Len(self.airplanes) |->
                       to_dict(self.airplanes[i].value, order)]]

\* snapshot_filename=None
NoneArg == <<"None">>

\* open(filename, "w") fails where the directory of the file is missing;
\* the working directory has no sub-directory
open_fails(filename) == \E i \in 1..Len(filename) : filename[i] = "/"

AirplaneKeys == {"name", "row_count", "row_layout", "reserved_seats"}

\* the loop of load_snapshot from entry i on: each airplane is stored as
\* soon as from_dict has built it, and an entry from_dict cannot read
\* (KeyError) ends the call with False, the entries before it kept
RECURSIVE load_loop(_, _, _)
load_loop(self, entries, i) ==
    IF i > Len(entries) THEN [self |-> self, ret |-> TRUE]
    ELSE IF ~(AirplaneKeys \subseteq DOMAIN entries[i])
         THEN [self |-> self, ret |-> FALSE]
         ELSE LET airplane_obj == from_dict(entries[i])
                  airplane_name == name_getter(airplane_obj)
              IN  load_loop([self EXCEPT !.airplanes =
                                 dict_set(@, airplane_name, airplane_obj)],
                            entries, i + 1)

\* load_snapshot once the file is known to exist: parse, then upsert
load_existing(self, node) ==
    IF node.tag = "invalid" THEN [self |-> self, ret |-> FALSE]
    ELSE IF falsy(node) THEN [self |-> self, ret |-> TRUE]
    ELSE IF node.tag # "map" THEN [self |-> self, ret |-> FALSE]
    ELSE LET data == yaml_safe_load(node)
         IN  load_loop(self,
                       IF "airplanes" \in DOMAIN data THEN data.airplanes ELSE <<>>,
                       1)

\* mutant: the snapshot replaces the registry
load_snapshot_replace(self, fs, snapshot_filename) ==
    LET filename == IF snapshot_filename = NoneArg
                    THEN self.default_snapshot_filename ELSE snapshot_filename
    IN  IF filename \notin DOMAIN fs THEN [self |-> self, fs |-> fs, ret |-> FALSE]
        ELSE LET r == load_existing([self EXCEPT !.airplanes = <<>>], fs[filename])
             IN  [self |-> r.self, fs |-> fs, ret |-> r.ret]

\* mutant: a missing file is opened for appending, which creates it empty
load_snapshot_touch(self, fs, snapshot_filename) ==
    LET filename == IF snapshot_filename = NoneArg
                    THEN self.default_snapshot_filename ELSE snapshot_filename
    IN  IF filename \notin DOMAIN fs
        THEN [self |-> self,
              fs |-> [f \in DOMAIN fs \cup {filename} |->
                         IF f = filename THEN Collection("null", <<>>) ELSE fs[f]],
              ret |-> FALSE]
        ELSE LET r == load_existing(self, fs[filename])
             IN  [self |-> r.self, fs |-> fs, ret |-> r.ret]

\* returns the registry and the files after the call, and the value returned
load_snapshot(self, fs, snapshot_filename) ==
    LET filename == IF snapshot_filename = NoneArg
                    THEN self.default_snapshot_filename ELSE snapshot_filename
    IN  IF filename \notin DOMAIN fs THEN [self |-> self, fs |-> fs, ret |-> FALSE]
        ELSE LET r == load_existing(self, fs[filename])
             IN  [self |-> r.self, fs |-> fs, ret |-> r.ret]

\* the files after open(filename, "w") and yaml.dump
write(fs, filename, node) ==
    [f \in DOMAIN fs \cup {filename} |-> IF f = filename THEN node ELSE fs[f]]

\* mutant: the suffix of the file name is not tested
save_snapshot_any_suffix(self, fs, snapshot_filename, order) ==
    LET filename == IF snapshot_filename = NoneArg
                    THEN self.default_snapshot_filename ELSE snapshot_filename
    IN  IF open_fails(filename) THEN [fs |-> fs, ret |-> FALSE]
        ELSE [fs |-> write(fs, filename, yaml_dump(Airline_to_dict(self, order))),
              ret |-> TRUE]

save_snapshot(self, fs, snapshot_filename, order) ==
    LET filename == IF snapshot_filename = NoneArg
                    THEN self.default_snapshot_filename ELSE snapshot_filename
    IN  IF ~endswith(filename, DotSnap) THEN [fs |-> fs, ret |-> FALSE]
        ELSE IF open_fails(filename) THEN [fs |-> fs, ret |-> FALSE]
        ELSE [fs |-> write(fs, filename, yaml_dump(Airline_to_dict(self, order))),
              ret |-> TRUE]

\* ---------------------------------------------------------------- inputs
RowCounts == 1..MaxRowCount

\* 'x' marks a seat, any other character is a separator
Layouts == {<<"x", "_", "x">>, <<"x", "x", "_", "x">>}

\* num_seats arguments: negative, zero and positive
NumSeats == (0 - 1)..MaxNumSeats

\* start seats: too short, not a number, a row before 'A', a negative
\* position, a leading zero, seats of rows A and B
SeatNames ==
    {<<"A">>, <<"A", "x">>, <<"@", "0">>, <<"A", "-", "1">>, <<"A", "0", "1">>,
     <<"A", "0">>, <<"A", "1">>, <<"B", "0">>}

\* seat names given to book_seat and cancel_seat (neither checks them)
SingleSeatNames == {<<"A", "0">>, <<"B", "2">>}

\* reserved_seats lists of the dictionaries given to from_dict
ReservedLists == {<<>>, <<<<"A", "1">>, <<"B", "0">>, <<"A", "1">>>>}

Dicts ==
    {[name |-> "TA101", row_count |-> rc, row_layout |-> rl, reserved_seats |-> rs] :
        rc \in RowCounts, rl \in Layouts, rs \in ReservedLists}

\* ----------------------------------------------------------------- state
\* plane: the Airplane object.  last: the latest call made on it: the
\* method, its arguments, the value returned (ret for a bool, index for
\* get_seat_index, name for get_seat_name), the object before the call,
\* and chain, the method of the call just before when this call repeats
\* that call's arguments (or decodes the name that call returned).
Call(op, seat, n, row, pos, ret, chain) ==
    [op |-> op, seat |-> seat, n |-> n, row |-> row, pos |-> pos,
     ret |-> ret, index |-> None, name |-> <<>>, pre |-> plane, chain |-> chain]

Chain(seat, n) ==
    IF last.op \in {"book_seats", "cancel_seats"} /\ last.ret = TRUE
       /\ last.seat = seat /\ last.n = n
    THEN last.op
    ELSE "none"

Constructed ==
    [op |-> "init", seat |-> <<>>, n |-> 0, row |-> 0, pos |-> 0,
     ret |-> TRUE, index |-> None, name |-> <<>>, pre |-> plane, chain |-> "none"]

\* --------------------------------------------- inputs for the registry
AirlineName == <<"A", "B", " ", "C">>

AirplaneNames == {<<"T", "1">>, <<"T", "2">>}

\* new names given to the name setter: a registered name and a blank one
NewNames == {<<"T", "2">>, <<" ">>}

\* (row_count, row_layout) arguments of add_airplane
Shapes ==
    {[row_count |-> 1, row_layout |-> <<"x", "_", "x">>],
     [row_count |-> MaxRowCount, row_layout |-> <<"x", "x", "_", "x">>]}

\* bookings made on the airplanes of the registry
FleetSeatNames == {<<"A", "0">>}

FleetNumSeats == 1..2

\* file names: the default one (None), one without the .snap suffix, one in
\* a directory that does not exist, one that no file has, and the files
\* below
PlanTxt == <<"p", ".", "t", "x", "t">>

NoDirSnap == <<"d", "/", "p", ".", "s", "n", "a", "p">>

MissingSnap == <<"n", "o", ".", "s", "n", "a", "p">>

BadSnap == <<"b", "a", "d", ".", "s", "n", "a", "p">>

PartSnap == <<"p", "a", "r", "t", ".", "s", "n", "a", "p">>

DupSnap == <<"d", "u", "p", ".", "s", "n", "a", "p">>

ListSnap == <<"l", "s", "t", ".", "s", "n", "a", "p">>

GoodSnap == <<"g", "o", "o", "d", ".", "s", "n", "a", "p">>

SaveNames == {NoneArg, PlanTxt, NoDirSnap}

LoadNames == {NoneArg, MissingSnap, BadSnap, PartSnap, DupSnap, ListSnap, GoodSnap}

Seats(names) == Collection("seq", [i \in 1..Len(names) |-> Scalar("str", names[i])])

\* part.snap: a well-formed airplane T1, then an airplane T2 without
\* row_count
PartDoc ==
    Collection("map",
        <<<<"name", Scalar("str", AirlineName)>>,
          <<"airplanes", Collection("seq",
              <<Collection("map",
                  <<<<"name", Scalar("str", <<"T", "1">>)>>,
                    <<"row_count", Scalar("int", <<"2">>)>>,
                    <<"row_layout", Scalar("str", <<"x", "x", "_", "x">>)>>,
                    <<"reserved_seats", Seats(<<<<"A", "1">>>>)>>>>),
                Collection("map",
                  <<<<"name", Scalar("str", <<"T", "2">>)>>,
                    <<"row_layout", Scalar("str", <<"x", "_", "x">>)>>,
                    <<"reserved_seats", Seats(<<>>)>>>>)>>)>>>>)

\* dup.snap: two well-formed airplanes, both named T1
DupDoc ==
    Collection("map",
        <<<<"name", Scalar("str", AirlineName)>>,
          <<"airplanes", Collection("seq",
              <<Collection("map",
                  <<<<"name", Scalar("str", <<"T", "1">>)>>,
                    <<"row_count", Scalar("int", <<"1">>)>>,
                    <<"row_layout", Scalar("str", <<"x", "_", "x">>)>>,
                    <<"reserved_seats", Seats(<<>>)>>>>),
                Collection("map",
                  <<<<"name", Scalar("str", <<"T", "1">>)>>,
                    <<"row_count", Scalar("int", <<"2">>)>>,
                    <<"row_layout", Scalar("str", <<"x", "x", "_", "x">>)>>,
                    <<"reserved_seats",
                      Seats(<<<<"A", "0">>, <<"A", "1">>, <<"A", "0">>>>)>>>>)>>)>>>>)

\* good.snap: one well-formed airplane, T2
GoodDoc ==
    Collection("map",
        <<<<"name", Scalar("str", AirlineName)>>,
          <<"airplanes", Collection("seq",
              <<Collection("map",
                  <<<<"name", Scalar("str", <<"T", "2">>)>>,
                    <<"row_count", Scalar("int", <<"2">>)>>,
                    <<"row_layout", Scalar("str", <<"x", "x", "_", "x">>)>>,
                    <<"reserved_seats",
                      Seats(<<<<"A", "2">>, <<"A", "0">>>>)>>>>)>>)>>>>)

\* the files of the working directory when the program first runs: a text
\* that is not YAML, the three snapshots above and a YAML list
InitialFiles ==
    [f \in {BadSnap, PartSnap, DupSnap, ListSnap, GoodSnap} |->
        CASE f = BadSnap -> Collection("invalid", <<>>)
          [] f = PartSnap -> PartDoc
          [] f = DupSnap -> DupDoc
          [] f = GoodSnap -> GoodDoc
          [] f = ListSnap -> Collection("seq", <<Scalar("int", <<"1">>)>>)]

\* did: the latest call made on the registry: the method, its arguments,
\* the value returned or the exception raised, the airplane returned (out,
\* an airplane without rows when the call returns none), the registry and
\* the files before the call, and the registry as the latest successful
\* save_snapshot wrote it, with the name of the file written (none: <<>>)
NoPlane == Airplane(<<>>, 0, <<>>)

Did(op, name, row_count, file, ret, raised) ==
    [op |-> op, name |-> name, row_count |-> row_count, file |-> file,
     ret |-> ret, raised |-> raised, out |-> NoPlane,
     pre |-> airline, prefiles |-> files,
     saved |-> did.saved, savedfile |-> did.savedfile]

\* no call made yet on the registry self, the files being fs
NoCall(self, fs) ==
    [op |-> "init", name |-> <<>>, row_count |-> 0, file |-> <<>>,
     ret |-> TRUE, raised |-> "", out |-> NoPlane,
     pre |-> self, prefiles |-> fs,
     saved |-> self, savedfile |-> <<>>]

\* the registry as the program constructs it, in the directory of the
\* files above
NoFleet ==
    /\ airline = Airline(AirlineName)
    /\ files = InitialFiles
    /\ did = NoCall(airline, files)

\* a directory without files
EmptyDirectory == <<>>

\* the registry as the program constructs it, in a directory without files
\* and with no record of calls: where the airplane is used alone
AirplaneAlone ==
    /\ airline = Airline(AirlineName)
    /\ files = EmptyDirectory
    /\ did = [op |-> "init"]

\* ------------------------------------------- bookings and cancellations
Init ==
    /\ \E rc \in RowCounts, rl \in Layouts : plane = Airplane("TA101", rc, rl)
    /\ last = Constructed
    /\ AirplaneAlone

BookSeat ==
    \E s \in SingleSeatNames :
        LET r == book_seat(plane, s)
        IN  /\ plane' = r.self
            /\ last' = Call("book_seat", s, 1, 0, 0, r.ret, "none")
            /\ UNCHANGED <<airline, files, did>>

BookSeats ==
    \E s \in SeatNames, n \in NumSeats :
        LET r == book_seats(plane, s, n)
        IN  /\ plane' = r.self
            /\ last' = Call("book_seats", s, n, 0, 0, r.ret, Chain(s, n))
            /\ UNCHANGED <<airline, files, did>>

CancelSeat ==
    \E s \in SingleSeatNames :
        LET r == cancel_seat(plane, s)
        IN  /\ plane' = r.self
            /\ last' = Call("cancel_seat", s, 1, 0, 0, r.ret, "none")
            /\ UNCHANGED <<airline, files, did>>

CancelSeats ==
    \E s \in SeatNames, n \in NumSeats :
        LET r == cancel_seats(plane, s, n)
        IN  /\ plane' = r.self
            /\ last' = Call("cancel_seats", s, n, 0, 0, r.ret, Chain(s, n))
            /\ UNCHANGED <<airline, files, did>>

FromDict ==
    \E data \in Dicts :
        /\ plane' = from_dict(data)
        /\ last' = Call("from_dict", <<>>, 0, 0, 0, TRUE, "none")
        /\ UNCHANGED <<airline, files, did>>

Next ==
    \/ BookSeat
    \/ BookSeats
    \/ CancelSeat
    \/ CancelSeats
    \/ FromDict

Spec == Init /\ [][Next]_vars

\* ------------------------------------------------- the queries of a plane
\* The queries change nothing, so they are explored from every airplane
\* the bookings can build: any set of seats of the plane reserved, with or
\* without the stray name "A01" that book_seat accepts.
AllSeats(self) ==
    {get_seat_name(self, row, pos) :
        row \in 0..(self.row_count - 1), pos \in 0..(self.seats_per_row - 1)}

InitQuery ==
    /\ \E rc \in RowCounts, rl \in Layouts :
        \E seats \in SUBSET AllSeats(Airplane("TA101", rc, rl)) :
            \E stray \in {{}, {<<"A", "0", "1">>}} :
                plane = [Airplane("TA101", rc, rl) EXCEPT !.reserved_seats = seats \cup stray]
    /\ last = Constructed
    /\ AirplaneAlone

GetSeatIndex ==
    \E s \in SeatNames \cup (IF last.op = "get_seat_name" THEN {last.name} ELSE {}) :
        /\ last' = [Call("get_seat_index", s, 0, 0, 0, TRUE,
                         IF last.op = "get_seat_name" /\ last.name = s
                         THEN "get_seat_name" ELSE "none")
                        EXCEPT !.index = get_seat_index(plane, s)]
        /\ UNCHANGED <<plane, airline, files, did>>

GetSeatName ==
    \E row \in 0..MaxRowCount, pos \in 0..MaxNumSeats :
        /\ last' = [Call("get_seat_name", <<>>, 0, row, pos, TRUE, "none")
                        EXCEPT !.name = get_seat_name(plane, row, pos)]
        /\ UNCHANGED <<plane, airline, files, did>>

CheckConsecutiveSeats ==
    \E s \in SeatNames, n \in NumSeats :
        /\ last' = Call("check_consecutive_seats", s, n, 0, 0,
                        check_consecutive_seats(plane, s, n), "none")
        /\ UNCHANGED <<plane, airline, files, did>>

NextQuery ==
    \/ GetSeatIndex
    \/ GetSeatName
    \/ CheckConsecutiveSeats

SpecQuery == InitQuery /\ [][NextQuery]_vars

\* ------------------------------------------- the registry and its files
InitAirline ==
    /\ plane = Airplane("TA101", 1, <<"x", "_", "x">>)
    /\ last = Constructed
    /\ NoFleet

\* every listing of the seat names reserved in some airplane of the
\* registry: the orders in which list(reserved_seats) may come out
Orders(self) ==
    LET all == UNION {self.airplanes[i].value.reserved_seats :
                         i \in 1..Len(self.airplanes)}
    IN  {q \in [1..Cardinality(all) -> all] :
            \A i, j \in 1..Cardinality(all) : q[i] = q[j] => i = j}

\* main starts: a new Airline object, the files as they are
NewAirline ==
    /\ airline' = Airline(AirlineName)
    /\ did' = Did("Airline", <<>>, 0, <<>>, TRUE, "")
    /\ UNCHANGED <<plane, last, files>>

AddAirplane ==
    \E name \in AirplaneNames, shape \in Shapes :
        LET r == add_airplane(airline, name, shape.row_count, shape.row_layout)
        IN  /\ airline' = r.self
            /\ did' = Did("add_airplane", name, shape.row_count, <<>>, r.ret, "")
            /\ UNCHANGED <<plane, last, files>>

DeleteAirplane ==
    \E name \in AirplaneNames :
        LET r == delete_airplane(airline, name)
        IN  /\ airline' = r.self
            /\ did' = Did("delete_airplane", name, 0, <<>>, r.ret, "")
            /\ UNCHANGED <<plane, last, files>>

\* get_airplane(name).book_seats(seat, n)
FleetBookSeats ==
    \E name \in AirplaneNames, s \in FleetSeatNames, n \in FleetNumSeats :
        /\ dict_has(airline.airplanes, name)
        /\ LET r == book_seats(get_airplane(airline, name), s, n)
           IN  /\ airline' = [airline EXCEPT !.airplanes = dict_set(@, name, r.self)]
               /\ did' = Did("book_seats", name, n, <<>>, r.ret, "")
        /\ UNCHANGED <<plane, last, files>>

\* get_airplane(name).name = new_name
SetName ==
    \E name \in AirplaneNames, new_name \in NewNames :
        /\ dict_has(airline.airplanes, name)
        /\ LET r == name_setter(get_airplane(airline, name), new_name)
           IN  /\ airline' = [airline EXCEPT !.airplanes = dict_set(@, name, r.self)]
               /\ did' = Did("name", name, 0, new_name, TRUE, r.raised)
        /\ UNCHANGED <<plane, last, files>>

SaveSnapshot ==
    \E file \in SaveNames, order \in Orders(airline) :
        LET r == save_snapshot(airline, files, file, order)
        IN  /\ files' = r.fs
            /\ did' = IF r.ret
                      THEN [Did("save_snapshot", <<>>, 0, file, r.ret, "")
                               EXCEPT !.saved = airline,
                                      !.savedfile = IF file = NoneArg
                                                    THEN airline.default_snapshot_filename
                                                    ELSE file]
                      ELSE Did("save_snapshot", <<>>, 0, file, r.ret, "")
            /\ UNCHANGED <<plane, last, airline>>

LoadSnapshot ==
    \E file \in LoadNames :
        LET r == load_snapshot(airline, files, file)
        IN  /\ airline' = r.self
            /\ files' = r.fs
            /\ did' = Did("load_snapshot", <<>>, 0, file, r.ret, "")
            /\ UNCHANGED <<plane, last>>

\* Airplane.from_dict(get_airplane(name).to_dict())
RoundTrip ==
    \E name \in AirplaneNames, order \in Orders(airline) :
        /\ dict_has(airline.airplanes, name)
        /\ did' = [Did("from_dict", name, 0, <<>>, TRUE, "")
                      EXCEPT !.out = from_dict(to_dict(get_airplane(airline, name), order))]
        /\ UNCHANGED <<plane, last, airline, files>>

NextAirline ==
    \/ AddAirplane
    \/ DeleteAirplane
    \/ FleetBookSeats
    \/ SetName
    \/ LoadSnapshot
    \/ RoundTrip

SpecAirline == InitAirline /\ [][NextAirline]_vars

\* ------------------------------------------------- saving and reloading
\* the registry after add_airplane(name, shape) and, when n is not 0,
\* get_airplane(name).book_seats("A0", n)
Fitted(self, name, shape, n) ==
    LET a == add_airplane(self, name, shape.row_count, shape.row_layout).self
    IN  IF n = 0 THEN a
        ELSE [a EXCEPT !.airplanes =
                 dict_set(@, name, book_seats(get_airplane(a, name), <<"A", "0">>, n).self)]

Fits == {[shape |-> s, n |-> n] : s \in Shapes, n \in {0} \cup FleetNumSeats}

Fleets ==
    LET with(self, name, fit) ==
            IF fit = <<>> THEN self ELSE Fitted(self, name, fit.shape, fit.n)
    IN  {with(with(Airline(AirlineName), <<"T", "1">>, f1), <<"T", "2">>, f2) :
            f1 \in Fits \cup {<<>>}, f2 \in Fits \cup {<<>>}}

InitSnapshot ==
    /\ plane = Airplane("TA101", 1, <<"x", "_", "x">>)
    /\ last = Constructed
    /\ airline \in Fleets
    /\ files = InitialFiles
    /\ did = NoCall(airline, files)

NextSnapshot ==
    \/ NewAirline
    \/ SaveSnapshot
    \/ LoadSnapshot

SpecSnapshot == InitSnapshot /\ [][NextSnapshot]_vars

\* ------------------------------------------------------------ properties
\* what a start seat and a count denote, stated apart from the methods
SeatParses(s) == Len(s) >= 2 /\ ~int(Tail(s)).ValueError

RowOf(s) == ord(s[1]) - ord("A")

PosOf(s) == int(Tail(s)).value

InBounds(self, row, pos) ==
    /\ 0 <= row /\ row < self.row_count
    /\ 0 <= pos /\ pos < self.seats_per_row

\* the names of the n seats from s on, in the row of s
Block(self, s, n) ==
    {get_seat_name(self, RowOf(s), PosOf(s) + i) : i \in 0..(n - 1)}

\* the block lies in one row of the plane: the bounds test of the methods
BlockFits(self, s, n) ==
    /\ SeatParses(s)
    /\ 0 <= RowOf(s) /\ RowOf(s) < self.row_count
    /\ PosOf(s) >= 0 /\ PosOf(s) + n <= self.seats_per_row

\* C1 as claimed: a cancel_seats call that returns False leaves
\* reserved_seats exactly as it was before the call.
C1_CancelSeatsAllOrNothing ==
    (last.op = "cancel_seats" /\ last.ret = FALSE)
        => plane.reserved_seats = last.pre.reserved_seats

\* C2: a book_seats call that returns False leaves the airplane, and so
\* reserved_seats, unchanged: no part of a block is ever booked.
C2_BookSeatsAllOrNothing ==
    (last.op = "book_seats" /\ last.ret = FALSE) => plane = last.pre

\* C2 witness: a rejected booking of a block that fits in the row and has
\* both a reserved and a free seat.
C2_Witness ==
    /\ last.op = "book_seats" /\ last.ret = FALSE /\ last.n >= 2
    /\ BlockFits(last.pre, last.seat, last.n)
    /\ Block(last.pre, last.seat, last.n) \cap last.pre.reserved_seats # {}
    /\ Block(last.pre, last.seat, last.n) \ last.pre.reserved_seats # {}

\* C3: when book_seats returns True, check_consecutive_seats was true of
\* the airplane before the call, and reserved_seats afterwards is the set
\* before plus exactly the n seats of the block; nothing else changes.
C3_BookSeatsBooksBlock ==
    (last.op = "book_seats" /\ last.ret = TRUE)
        => /\ check_consecutive_seats(last.pre, last.seat, last.n)
           /\ plane = [last.pre EXCEPT !.reserved_seats =
                           @ \cup Block(last.pre, last.seat, last.n)]
           /\ Block(last.pre, last.seat, last.n) \subseteq plane.reserved_seats
           /\ \A i \in 0..(last.n - 1) :
                  InBounds(plane, RowOf(last.seat), PosOf(last.seat) + i)

\* C3 witness: a successful booking of two or more seats on an airplane
\* that already had reservations.
C3_Witness ==
    /\ last.op = "book_seats" /\ last.ret = TRUE /\ last.n >= 2
    /\ last.pre.reserved_seats # {}
    /\ Cardinality(plane.reserved_seats) = Cardinality(last.pre.reserved_seats) + last.n

\* every one of the n seats from s on is a seat of the plane and is not
\* in reserved_seats
AllInBoundsAndFree(self, s, n) ==
    /\ SeatParses(s)
    /\ \A i \in 0..(n - 1) :
           /\ InBounds(self, RowOf(s), PosOf(s) + i)
           /\ get_seat_name(self, RowOf(s), PosOf(s) + i) \notin self.reserved_seats

\* C4 as claimed: for every count n, check_consecutive_seats is true iff
\* all n seats from s on are in bounds and unreserved, and it changes
\* nothing.
C4_CheckIffAnyCount ==
    last.op = "check_consecutive_seats"
        => /\ (last.ret = TRUE) <=> AllInBoundsAndFree(last.pre, last.seat, last.n)
           /\ plane = last.pre

\* C4 amended: for every count n >= 1, check_consecutive_seats is true iff
\* all n seats from s on are in bounds and unreserved; for n <= 0 it is
\* true iff the bounds test alone passes; it never changes the airplane.
C4_CheckIffPositiveCount ==
    last.op = "check_consecutive_seats"
        => /\ last.n >= 1 =>
                ((last.ret = TRUE) <=> AllInBoundsAndFree(last.pre, last.seat, last.n))
           /\ last.n <= 0 =>
                ((last.ret = TRUE) <=> BlockFits(last.pre, last.seat, last.n))
           /\ plane = last.pre

\* C4 witness: a block of two or more free seats is found available on an
\* airplane that has reservations.
C4_Witness ==
    /\ last.op = "check_consecutive_seats" /\ last.ret = TRUE /\ last.n >= 2
    /\ plane.reserved_seats # {}

\* C5: with the start seat in the plane and no seat of the block
\* reserved, a block with start_pos + count = seats_per_row is accepted by
\* check_consecutive_seats and booked by book_seats, and a block with
\* start_pos + count > seats_per_row is rejected by both.
C5_RowWidthInclusive ==
    (/\ last.op = "book_seats"
     /\ SeatParses(last.seat)
     /\ InBounds(last.pre, RowOf(last.seat), PosOf(last.seat))
     /\ Block(last.pre, last.seat, last.n) \cap last.pre.reserved_seats = {})
        => /\ PosOf(last.seat) + last.n = last.pre.seats_per_row
                => /\ last.ret = TRUE
                   /\ check_consecutive_seats(last.pre, last.seat, last.n)
                   /\ Block(last.pre, last.seat, last.n) \subseteq plane.reserved_seats
           /\ PosOf(last.seat) + last.n > last.pre.seats_per_row
                => /\ last.ret = FALSE
                   /\ ~check_consecutive_seats(last.pre, last.seat, last.n)
                   /\ plane = last.pre

\* C5 witness: a booking of two or more seats that ends exactly on the
\* last seat of the row succeeds.
C5_Witness ==
    /\ last.op = "book_seats" /\ last.ret = TRUE /\ last.n >= 2
    /\ PosOf(last.seat) + last.n = last.pre.seats_per_row

\* C6: a cancel_seats call that immediately follows a successful
\* book_seats call with the same arguments returns True and leaves
\* reserved_seats as it was before the booking.
C6_BookThenCancelRestores ==
    [][(/\ last.op = "book_seats" /\ last.ret = TRUE
        /\ last'.op = "cancel_seats"
        /\ last'.seat = last.seat /\ last'.n = last.n)
           => /\ last'.ret = TRUE
              /\ plane'.reserved_seats = last.pre.reserved_seats
              /\ plane' = last.pre]_vars

\* C6 witness: the cancellation of two or more seats right after their
\* booking, other reservations being present.
C6_Witness ==
    /\ last.op = "cancel_seats" /\ last.chain = "book_seats"
    /\ last.n >= 2 /\ last.ret = TRUE
    /\ plane.reserved_seats # {}

\* C7: cancel_seats returns True exactly when the start seat parses, its
\* row is in range, the block fits in the row and every seat of the block
\* is reserved; then reserved_seats loses exactly the seats of the block
\* and nothing else changes.
C7_CancelSeatsExactly ==
    last.op = "cancel_seats"
        => /\ (last.ret = TRUE) <=>
                /\ BlockFits(last.pre, last.seat, last.n)
                /\ Block(last.pre, last.seat, last.n) \subseteq last.pre.reserved_seats
           /\ last.ret = TRUE =>
                plane = [last.pre EXCEPT !.reserved_seats =
                             @ \ Block(last.pre, last.seat, last.n)]

\* C7 witness: a successful cancellation of two or more seats that leaves
\* other reservations in place.
C7_Witness ==
    /\ last.op = "cancel_seats" /\ last.ret = TRUE /\ last.n >= 2
    /\ plane.reserved_seats # {}
    /\ Cardinality(plane.reserved_seats) = Cardinality(last.pre.reserved_seats) - last.n

\* C8: a cancel_seats call with n >= 1 that immediately follows a
\* successful cancel_seats call with the same arguments returns False and
\* changes no seat.
C8_CancelTwiceFails ==
    [][(/\ last.op = "cancel_seats" /\ last.ret = TRUE /\ last.n >= 1
        /\ last'.op = "cancel_seats"
        /\ last'.seat = last.seat /\ last'.n = last.n)
           => /\ last'.ret = FALSE
              /\ plane' = plane]_vars

\* C8 witness: the same cancellation of two or more seats made twice in
\* a row, the second one refused.
C8_Witness ==
    /\ last.op = "cancel_seats" /\ last.chain = "cancel_seats"
    /\ last.n >= 2 /\ last.ret = FALSE

\* C9 as claimed: every member of reserved_seats decodes to a seat of the
\* plane (get_seat_index is not None).
C9_ReservedSeatsInBounds ==
    \A s \in plane.reserved_seats : get_seat_index(plane, s) # None

\* C10: for every row and position of the plane, get_seat_index of the
\* name get_seat_name gives is not None and is row * seats_per_row +
\* position.
C10_SeatCodecRoundTrip ==
    [][(/\ last.op = "get_seat_name"
        /\ InBounds(plane, last.row, last.pos)
        /\ last'.op = "get_seat_index"
        /\ last'.seat = last.name)
           => /\ last'.index # None
              /\ last'.index = last.row * plane.seats_per_row + last.pos]_vars

\* C10 witness: the name of the last seat of a plane of two or more rows
\* decoded back to its index.
C10_Witness ==
    /\ last.op = "get_seat_index" /\ last.chain = "get_seat_name"
    /\ plane.row_count >= 2
    /\ last.index = plane.row_count * plane.seats_per_row - 1

\* ------------------------------------------- properties of the registry
\* the airplane registered under a name before the latest call
Before(name) == dict_get(did.pre.airplanes, name)

\* C11: add_airplane with a name already in the registry returns False and
\* leaves the registry exactly as before: the same names, the airplane of
\* that name with its row_count, row_layout and reserved_seats, not replaced.
C11_DuplicateAddRejected ==
    (did.op = "add_airplane" /\ dict_has(did.pre.airplanes, did.name))
        => /\ ~did.ret
           /\ dict_keys(airline.airplanes) = dict_keys(did.pre.airplanes)
           /\ airline = did.pre

\* a second add under a registered name, with another row_count, of an
\* airplane that has reserved seats
C11_Witness ==
    /\ did.op = "add_airplane"
    /\ dict_has(did.pre.airplanes, did.name)
    /\ Before(did.name).row_count # did.row_count
    /\ Before(did.name).reserved_seats # {}

\* C12: a successful add on a registry whose default_airplane_name is unset
\* sets the default to the name of the added airplane.
C12_FirstAddSetsDefault ==
    (did.op = "add_airplane" /\ did.ret
        /\ getattr(did.pre, "default_airplane_name") \in {<<"AttributeError">>, NoneArg})
        => getattr(airline, "default_airplane_name") = did.name

\* C13: delete_airplane returns True iff the name was in the registry; on
\* True exactly that entry is removed and every other airplane is as before;
\* on False the registry is as before.
C13_DeleteExactlyThatEntry ==
    did.op = "delete_airplane"
        => /\ did.ret <=> dict_has(did.pre.airplanes, did.name)
           /\ airline = [did.pre EXCEPT !.airplanes =
                            SelectSeq(@, LAMBDA e : e.key # did.name)]

\* the second of two airplanes deleted, the first one holding reserved seats
C13_Witness ==
    /\ did.op = "delete_airplane"
    /\ did.ret
    /\ Len(did.pre.airplanes) = 2
    /\ did.pre.airplanes[2].key = did.name
    /\ did.pre.airplanes[1].value.reserved_seats # {}
    /\ Len(airline.airplanes) = 1

FileOf(self, file) == IF file = NoneArg THEN self.default_snapshot_filename ELSE file

\* the airplane entries of the snapshot that the latest call has read
Entries ==
    LET node == did.prefiles[FileOf(did.pre, did.file)]
    IN  IF node.tag = "map" /\ "airplanes" \in DOMAIN yaml_safe_load(node)
        THEN yaml_safe_load(node).airplanes
        ELSE <<>>

\* the registry holds an airplane with the name and the data of the entry
Holds(self, entry) ==
    /\ dict_has(self.airplanes, entry.name)
    /\ LET x == dict_get(self.airplanes, entry.name)
       IN  /\ x.row_count = entry.row_count
           /\ x.row_layout = entry.row_layout
           /\ x.reserved_seats = set(entry.reserved_seats)

\* every airplane in memory before the call whose name the snapshot does
\* not list is as before, and no name has left the registry
OthersUntouched ==
    \A i \in 1..Len(did.pre.airplanes) :
        LET k == did.pre.airplanes[i].key
        IN  /\ dict_has(airline.airplanes, k)
            /\ (\A j \in 1..Len(Entries) : Entries[j].name # k)
                   => dict_get(airline.airplanes, k) = did.pre.airplanes[i].value

\* C15 (as stated): a successful load_snapshot is an upsert by name: every
\* airplane in the snapshot is present afterwards with exactly the row_count,
\* row_layout and reserved seats of the snapshot, every airplane in memory
\* whose name is not in the snapshot is untouched, and no entry is removed.
C15_LoadUpsertsEveryEntry ==
    (did.op = "load_snapshot" /\ did.ret)
        => /\ \A j \in 1..Len(Entries) : Holds(airline, Entries[j])
           /\ OthersUntouched

\* C15 (amended): as above for the last entry that the snapshot lists under
\* each name; an earlier entry of the same name is overwritten by it.
C15_LoadUpsertsLastEntry ==
    (did.op = "load_snapshot" /\ did.ret)
        => /\ \A j \in 1..Len(Entries) :
                  (\A l \in (j + 1)..Len(Entries) : Entries[l].name # Entries[j].name)
                      => Holds(airline, Entries[j])
           /\ OthersUntouched

\* a snapshot loaded over a registry that holds an airplane of the same
\* name with other rows and an airplane, with reserved seats, of another name
C15_Witness ==
    /\ did.op = "load_snapshot"
    /\ did.ret
    /\ Len(did.pre.airplanes) = 2
    /\ \E j \in 1..Len(Entries) :
          /\ dict_has(did.pre.airplanes, Entries[j].name)
          /\ Before(Entries[j].name).row_count # Entries[j].row_count
    /\ \E i \in 1..2 :
          /\ \A j \in 1..Len(Entries) : Entries[j].name # did.pre.airplanes[i].key
          /\ did.pre.airplanes[i].value.reserved_seats # {}
    /\ Len(Entries) > 0

\* the same names, and under each name the same row_count, row_layout and
\* set of reserved seats
same_fleet(a, b) ==
    /\ {a.airplanes[i].key : i \in 1..Len(a.airplanes)}
           = {b.airplanes[i].key : i \in 1..Len(b.airplanes)}
    /\ \A i \in 1..Len(a.airplanes) :
           LET x == a.airplanes[i].value
               y == dict_get(b.airplanes, a.airplanes[i].key)
           IN  /\ x.row_count = y.row_count
               /\ x.row_layout = y.row_layout
               /\ x.reserved_seats = y.reserved_seats

\* C16: save_snapshot followed by load_snapshot of the same file into a
\* freshly constructed empty Airline yields the same set of airplane names,
\* and for each name the same row_count, row_layout and set of reserved
\* seats.
C16_SaveLoadRoundTrip ==
    (did.op = "load_snapshot" /\ did.pre.airplanes = <<>>
        /\ FileOf(did.pre, did.file) = did.savedfile)
        => did.ret /\ same_fleet(airline, did.saved)

\* two airplanes, two seats reserved in one of them, saved and loaded into
\* a new Airline
C16_Witness ==
    /\ did.op = "load_snapshot"
    /\ did.pre.airplanes = <<>>
    /\ FileOf(did.pre, did.file) = did.savedfile
    /\ Len(did.saved.airplanes) = 2
    /\ \E i \in 1..2 : Cardinality(did.saved.airplanes[i].value.reserved_seats) = 2
    /\ Len(airline.airplanes) = 2

\* C17: for every airplane x, Airplane.from_dict(x.to_dict()) has the same
\* name, row_count, row_layout, seats_per_row and set of reserved seats as
\* x, and its reserved set is exactly the seats listed in reserved_seats.
C17_AirplaneRoundTrip ==
    did.op = "from_dict"
        => LET x == get_airplane(airline, did.name)
               y == did.out
           IN  /\ name_getter(y) = name_getter(x)
               /\ y.row_count = x.row_count
               /\ y.row_layout = x.row_layout
               /\ y.seats_per_row = x.seats_per_row
               /\ y.reserved_seats = x.reserved_seats
               /\ \A order \in Orders(airline) :
                      y.reserved_seats = set(to_dict(x, order).reserved_seats)

\* an airplane with two reserved seats written to a dictionary and rebuilt
C17_Witness ==
    /\ did.op = "from_dict"
    /\ Cardinality(get_airplane(airline, did.name).reserved_seats) = 2
    /\ Cardinality(did.out.reserved_seats) = 2

\* C18: save_snapshot with a file name that does not end in ".snap"
\* returns False and neither creates nor modifies any file; the registry in
\* memory is unchanged too.
C18_SaveRejectsOtherSuffix ==
    (did.op = "save_snapshot" /\ ~endswith(FileOf(did.pre, did.file), DotSnap))
        => /\ ~did.ret
           /\ DOMAIN files = DOMAIN did.prefiles
           /\ files = did.prefiles
           /\ airline = did.pre

\* a registry of two airplanes saved to p.txt
C18_Witness ==
    /\ did.op = "save_snapshot"
    /\ did.file = PlanTxt
    /\ Len(did.pre.airplanes) = 2
    /\ PlanTxt \notin DOMAIN files

\* C19: if load_snapshot returns False because the file exists but its
\* content cannot be parsed or deserialized, the registry is exactly what it
\* was before the call: no airplane is added, replaced or removed.
C19_FailedLoadChangesNothing ==
    (did.op = "load_snapshot" /\ ~did.ret
        /\ FileOf(did.pre, did.file) \in DOMAIN did.prefiles)
        => airline = did.pre

\* C20: load_snapshot on a path where no file exists returns False without
\* raising, leaves the registry unchanged and creates no file.
C20_LoadOfMissingFile ==
    (did.op = "load_snapshot" /\ FileOf(did.pre, did.file) \notin DOMAIN did.prefiles)
        => /\ ~did.ret
           /\ did.raised = ""
           /\ airline = did.pre
           /\ DOMAIN files = DOMAIN did.prefiles
           /\ files = did.prefiles

\* no.snap loaded into a registry that holds an airplane with reserved seats
C20_Witness ==
    /\ did.op = "load_snapshot"
    /\ did.file = MissingSnap
    /\ MissingSnap \notin DOMAIN files
    /\ \E i \in 1..Len(airline.airplanes) : airline.airplanes[i].value.reserved_seats # {}

\* ------------------------------------------------- the command line
LowerAlphabet ==
    <<"a", "b", "c", "d", "e", "f", "g", "h", "i", "j", "k", "l", "m",
      "n", "o", "p", "q", "r", "s", "t", "u", "v", "w", "x", "y", "z">>

UpperAlphabet ==
    <<"A", "B", "C", "D", "E", "F", "G", "H", "I", "J", "K", "L", "M",
      "N", "O", "P", "Q", "R", "S", "T", "U", "V", "W", "X", "Y", "Z">>

\* str.upper(), one character at a time
upper(s) ==
    [i \in 1..Len(s) |->
        IF \E j \in 1..Len(LowerAlphabet) : LowerAlphabet[j] = s[i]
        THEN UpperAlphabet[IndexOf(LowerAlphabet, s[i])]
        ELSE s[i]]

\* argv[k], counted from 0 as the code counts
at(argv, k) == argv[k + 1]

DefaultRowCount == 20

DefaultRowLayout == <<"x", "x", "_", "x", "x", "x", "x", "_", "x", "x">>

\* how a run of main ends: the registry in memory, the files, what was
\* printed ("SUCCESS", "FAIL", "USAGE" for the usage text, "LIST" for the
\* listing), whether the method of the registry or of the airplane was
\* called and returned True, and whether save_snapshot was called and
\* returned True
Exit(self, fs, out, core, saved) ==
    [self |-> self, fs |-> fs, out |-> out, core |-> core, saved |-> saved]

cli_add_airplane(airline_obj, fs, airplane_name, argv, order) ==
    IF Len(argv) < 2 \/ Len(argv) > 5
    THEN Exit(airline_obj, fs, "USAGE", FALSE, FALSE)
    ELSE LET name == IF Len(argv) > 2 THEN at(argv, 2) ELSE airplane_name
             row_count == IF Len(argv) > 3 THEN int(at(argv, 3))
                          ELSE [ValueError |-> FALSE, value |-> DefaultRowCount]
             row_layout == IF Len(argv) > 4 THEN at(argv, 4) ELSE DefaultRowLayout
         IN  IF row_count.ValueError
             THEN Exit(airline_obj, fs, "FAIL", FALSE, FALSE)
             ELSE LET r == add_airplane(airline_obj, name, row_count.value, row_layout)
                  IN  IF r.ret
                      THEN LET s == save_snapshot(r.self, fs, NoneArg, order)
                           IN  Exit(r.self, s.fs, "SUCCESS", TRUE, s.ret)
                      ELSE Exit(r.self, fs, "FAIL", FALSE, FALSE)

\* mutant: the snapshot is not saved after a booking
cli_book_seats_no_save(airline_obj, fs, airplane_name, argv, order) ==
    IF Len(argv) < 4 \/ Len(argv) > 4
    THEN Exit(airline_obj, fs, "USAGE", FALSE, FALSE)
    ELSE LET seat_name == at(argv, 2)
             num_seats == int(at(argv, 3))
         IN  IF num_seats.ValueError
             THEN Exit(airline_obj, fs, "FAIL", FALSE, FALSE)
             ELSE LET r == book_seats(get_airplane(airline_obj, airplane_name),
                                      seat_name, num_seats.value)
                      after == [airline_obj EXCEPT !.airplanes =
                                   dict_set(@, airplane_name, r.self)]
                  IN  IF r.ret
                      THEN Exit(after, fs, "SUCCESS", TRUE, TRUE)
                      ELSE Exit(after, fs, "FAIL", FALSE, FALSE)

\* the airplane is the object that the registry holds under airplane_name:
\* what book_seats does to it shows in the registry
cli_book_seats(airline_obj, fs, airplane_name, argv, order) ==
    IF Len(argv) < 4 \/ Len(argv) > 4
    THEN Exit(airline_obj, fs, "USAGE", FALSE, FALSE)
    ELSE LET seat_name == at(argv, 2)
             num_seats == int(at(argv, 3))
         IN  IF num_seats.ValueError
             THEN Exit(airline_obj, fs, "FAIL", FALSE, FALSE)
             ELSE LET r == book_seats(get_airplane(airline_obj, airplane_name),
                                      seat_name, num_seats.value)
                      after == [airline_obj EXCEPT !.airplanes =
                                   dict_set(@, airplane_name, r.self)]
                  IN  IF r.ret
                      THEN LET s == save_snapshot(after, fs, NoneArg, order)
                           IN  Exit(after, s.fs, "SUCCESS", TRUE, s.ret)
                      ELSE Exit(after, fs, "FAIL", FALSE, FALSE)

\* mutant: the snapshot is saved whatever cancel_seats returns
cli_cancel_seats_always_saves(airline_obj, fs, airplane_name, argv, order) ==
    IF Len(argv) < 4 \/ Len(argv) > 4
    THEN Exit(airline_obj, fs, "USAGE", FALSE, FALSE)
    ELSE LET seat_name == at(argv, 2)
             num_seats == int(at(argv, 3))
         IN  IF num_seats.ValueError
             THEN Exit(airline_obj, fs, "FAIL", FALSE, FALSE)
             ELSE LET r == cancel_seats(get_airplane(airline_obj, airplane_name),
                                        seat_name, num_seats.value)
                      after == [airline_obj EXCEPT !.airplanes =
                                   dict_set(@, airplane_name, r.self)]
                      s == save_snapshot(after, fs, NoneArg, order)
                  IN  IF r.ret
                      THEN Exit(after, s.fs, "SUCCESS", TRUE, s.ret)
                      ELSE Exit(after, s.fs, "FAIL", FALSE, s.ret)

cli_cancel_seats(airline_obj, fs, airplane_name, argv, order) ==
    IF Len(argv) < 4 \/ Len(argv) > 4
    THEN Exit(airline_obj, fs, "USAGE", FALSE, FALSE)
    ELSE LET seat_name == at(argv, 2)
             num_seats == int(at(argv, 3))
         IN  IF num_seats.ValueError
             THEN Exit(airline_obj, fs, "FAIL", FALSE, FALSE)
             ELSE LET r == cancel_seats(get_airplane(airline_obj, airplane_name),
                                        seat_name, num_seats.value)
                      after == [airline_obj EXCEPT !.airplanes =
                                   dict_set(@, airplane_name, r.self)]
                  IN  IF r.ret
                      THEN LET s == save_snapshot(after, fs, NoneArg, order)
                           IN  Exit(after, s.fs, "SUCCESS", TRUE, s.ret)
                      ELSE Exit(after, fs, "FAIL", FALSE, FALSE)

\* the registry that main has in memory once load_snapshot() has returned
\* (what it returns is not looked at)
loaded(fs, airline_name) == load_snapshot(Airline(airline_name), fs, NoneArg).self

\* one run of the program: AIRLINE_NAME and AIRPLANE_NAME come from the
\* environment, argv from the command line
main(fs, airline_name, airplane_name, argv, order) ==
    LET airline_obj == loaded(fs, airline_name)
    IN  IF Len(argv) < 2 THEN Exit(airline_obj, fs, "USAGE", FALSE, FALSE)
        ELSE LET action == upper(at(argv, 1))
             IN  IF action = <<"L", "I", "S", "T">>
                 THEN Exit(airline_obj, fs, "LIST", FALSE, FALSE)
                 ELSE IF action = <<"A", "D", "D">>
                 THEN cli_add_airplane(airline_obj, fs, airplane_name, argv, order)
                 ELSE IF ~dict_has(airline_obj.airplanes, airplane_name)
                 THEN Exit(airline_obj, fs, "FAIL", FALSE, FALSE)
                 ELSE IF action = <<"B", "O", "O", "K">>
                 THEN cli_book_seats(airline_obj, fs, airplane_name, argv, order)
                 ELSE IF action = <<"C", "A", "N", "C", "E", "L">>
                 THEN cli_cancel_seats(airline_obj, fs, airplane_name, argv, order)
                 ELSE Exit(airline_obj, fs, "FAIL", FALSE, FALSE)

\* ------------------------------------------- runs of the command line
\* AIRLINE_NAME: the second one gives a default snapshot file, a/b.snap, in
\* a directory that does not exist
CliAirlineNames == {AirlineName, <<"A", "/", "B">>}

\* AIRPLANE_NAME
EnvAirplaneName == <<"T", "1">>

Prog == <<"c", "l", "i">>

AddArgvs ==
    {<<Prog, <<"A", "D", "D">>>>,
     <<Prog, <<"A", "D", "D">>, <<" ">>>>,
     <<Prog, <<"A", "D", "D">>, <<"T", "1">>, <<"0">>, <<"x", "_", "x">>>>,
     <<Prog, <<"A", "D", "D">>, <<"T", "1">>, <<"x">>>>}

CliSeatNames == {<<"A", "0">>, <<"A", "1">>}

CliNumSeats == {<<"1">>, <<"2">>, <<"x">>}

BookArgvs ==
    {<<Prog, <<"b", "o", "o", "k">>, s, n>> : s \in CliSeatNames, n \in CliNumSeats}
        \cup {<<Prog, <<"b", "o", "o", "k">>, <<"A", "0">>>>}

CancelArgvs ==
    {<<Prog, <<"C", "A", "N", "C", "E", "L">>, s, n>> :
        s \in CliSeatNames, n \in CliNumSeats}
        \cup {<<Prog, <<"C", "A", "N", "C", "E", "L">>, <<"A", "0">>>>}

OtherArgvs == {<<Prog>>, <<Prog, <<"L", "I", "S", "T">>>>, <<Prog, <<"F", "L", "Y">>>>}

\* the seats that a BOOK or CANCEL command covers on the airplane of
\* AIRPLANE_NAME as the run loaded it
Covered(pre, argv) ==
    IF Len(argv) = 4 /\ dict_has(pre.airplanes, EnvAirplaneName)
           /\ SeatParses(at(argv, 2)) /\ ~int(at(argv, 3)).ValueError
    THEN Block(get_airplane(pre, EnvAirplaneName), at(argv, 2), int(at(argv, 3)).value)
    ELSE {}

\* the record of a run: argv, the action (argv[1] in capitals), what the
\* run printed and returned (see Exit), the registry as the run loaded it
\* and the files it found, and three notes on the runs so far: the seats
\* covered by a BOOK that printed SUCCESS and by no CANCEL that printed
\* SUCCESS since (held; preheld is held before this run), and whether every
\* save_snapshot called so far has returned True (allsaved)
Ran(argv, r, pre) ==
    LET op == IF Len(argv) < 2 THEN <<>> ELSE upper(at(argv, 1))
    IN  [op |-> op, argv |-> argv, out |-> r.out, core |-> r.core, saved |-> r.saved,
         pre |-> pre, prefiles |-> files,
         preheld |-> did.held,
         held |-> IF r.out = "SUCCESS" /\ op = <<"B", "O", "O", "K">>
                  THEN did.held \cup Covered(pre, argv)
                  ELSE IF r.out = "SUCCESS" /\ op = <<"C", "A", "N", "C", "E", "L">>
                  THEN did.held \ Covered(pre, argv)
                  ELSE did.held,
         allsaved |-> did.allsaved /\ (r.core => r.saved)]

\* before the first run: the directory is empty, or it holds a default
\* snapshot file whose second airplane is malformed
InitCli ==
    /\ plane = Airplane("TA101", 1, <<"x", "_", "x">>)
    /\ last = Constructed
    /\ \E airline_name \in CliAirlineNames :
          /\ airline = Airline(airline_name)
          /\ files \in {EmptyDirectory} \cup
                 (IF open_fails(airline.default_snapshot_filename) THEN {}
                  ELSE {[f \in {airline.default_snapshot_filename} |-> PartDoc]})
    /\ did = [op |-> <<>>, argv |-> <<>>, out |-> "", core |-> FALSE, saved |-> FALSE,
              pre |-> airline, prefiles |-> files,
              preheld |-> {}, held |-> {}, allsaved |-> TRUE]

\* every seat name reserved in some airplane of the registry
Reserved(self) ==
    UNION {self.airplanes[i].value.reserved_seats : i \in 1..Len(self.airplanes)}

\* every listing of the seat names: the orders in which a list made from a
\* set of them may come out
Listings(seats) ==
    {q \in [1..Cardinality(seats) -> seats] :
        \A i, j \in 1..Cardinality(seats) : q[i] = q[j] => i = j}

\* An action is one run of main: pre is the registry as the run loads it,
\* order the order in which the lists of reserved seats come out (a run
\* reserves no seat outside those it loaded and those its command covers),
\* ran what main returns.
CliAdd ==
    \E argv \in AddArgvs :
        \E pre \in {loaded(files, airline.name)} :
            \E order \in Listings(Reserved(pre) \cup Covered(pre, argv)) :
                \E ran \in {main(files, airline.name, EnvAirplaneName, argv, order)} :
                    /\ airline' = ran.self
                    /\ files' = ran.fs
                    /\ did' = Ran(argv, ran, pre)
                    /\ UNCHANGED <<plane, last>>

CliBook ==
    \E argv \in BookArgvs :
        \E pre \in {loaded(files, airline.name)} :
            \E order \in Listings(Reserved(pre) \cup Covered(pre, argv)) :
                \E ran \in {main(files, airline.name, EnvAirplaneName, argv, order)} :
                    /\ airline' = ran.self
                    /\ files' = ran.fs
                    /\ did' = Ran(argv, ran, pre)
                    /\ UNCHANGED <<plane, last>>

CliCancel ==
    \E argv \in CancelArgvs :
        \E pre \in {loaded(files, airline.name)} :
            \E order \in Listings(Reserved(pre) \cup Covered(pre, argv)) :
                \E ran \in {main(files, airline.name, EnvAirplaneName, argv, order)} :
                    /\ airline' = ran.self
                    /\ files' = ran.fs
                    /\ did' = Ran(argv, ran, pre)
                    /\ UNCHANGED <<plane, last>>

\* LIST, an unknown action, no action
CliOther ==
    \E argv \in OtherArgvs :
        \E pre \in {loaded(files, airline.name)} :
            \E order \in Listings(Reserved(pre) \cup Covered(pre, argv)) :
                \E ran \in {main(files, airline.name, EnvAirplaneName, argv, order)} :
                    /\ airline' = ran.self
                    /\ files' = ran.fs
                    /\ did' = Ran(argv, ran, pre)
                    /\ UNCHANGED <<plane, last>>

NextCli ==
    \/ CliAdd
    \/ CliBook
    \/ CliCancel
    \/ CliOther

SpecCli == InitCli /\ [][NextCli]_vars

\* ------------------------------------------ properties of the driver
\* C21: constructing an Airplane with an empty or whitespace-only name, or
\* with row_count <= 0, fails and produces no airplane; add_airplane with
\* such arguments inserts nothing, and every airplane in a reachable
\* registry has a non-empty trimmed name and row_count > 0.
C21_AirplanesAreValid ==
    \A i \in 1..Len(airline.airplanes) :
        /\ rstrip(lstrip(name_getter(airline.airplanes[i].value))) # <<>>
        /\ airline.airplanes[i].value.row_count > 0

\* C22: assigning a non-empty string to the name property of an Airplane
\* changes the value that the name getter returns to the assigned string.
C22_SetterChangesGetter ==
    (did.op = "name" /\ did.raised = "")
        => name_getter(get_airplane(airline, did.name)) = did.file

Mutating == {<<"A", "D", "D">>, <<"B", "O", "O", "K">>, <<"C", "A", "N", "C", "E", "L">>}

\* the default snapshot file holds the registry in memory: it is the dump of
\* the registry for some order of the lists of reserved seats, and a load of
\* it gives the airplanes and reserved sets of the registry
Persisted ==
    /\ airline.default_snapshot_filename \in DOMAIN files
    /\ \E order \in Listings(Reserved(airline)) :
          files[airline.default_snapshot_filename]
              = yaml_dump(Airline_to_dict(airline, order))
    /\ same_fleet(airline, loaded(files, airline.name))

C24_FailLeavesFilesAlone ==
    did.out = "FAIL"
        => /\ DOMAIN files = DOMAIN did.prefiles
           /\ files = did.prefiles
           /\ loaded(files, airline.name) = did.pre

\* a CANCEL of two seats of which only the first was reserved: it printed
\* FAIL and had released the first seat in memory
C24_Witness ==
    /\ did.op = <<"C", "A", "N", "C", "E", "L">>
    /\ did.out = "FAIL"
    /\ Cardinality(Covered(did.pre, did.argv)) = 2
    /\ Covered(did.pre, did.argv) \cap Reserved(did.pre) # {}
    /\ airline # did.pre
    /\ airline.default_snapshot_filename \in DOMAIN files

\* C25: with saves succeeding, two BOOK commands that both report SUCCESS
\* never cover a common seat unless a CANCEL reporting SUCCESS and covering
\* that seat ran between them, and a seat booked by a successful BOOK stays
\* reserved, as every later run loads it, until such a CANCEL.
C25_NoDoubleBooking ==
    did.allsaved
        => /\ (did.op = <<"B", "O", "O", "K">> /\ did.out = "SUCCESS")
                  => Covered(did.pre, did.argv) \cap did.preheld = {}
           /\ did.held # {}
                  => /\ dict_has(loaded(files, airline.name).airplanes, EnvAirplaneName)
                     /\ did.held \subseteq
                            get_airplane(loaded(files, airline.name),
                                         EnvAirplaneName).reserved_seats

\* a BOOK that covers a seat held by an earlier BOOK, and printed FAIL
C25_Witness ==
    /\ did.allsaved
    /\ did.op = <<"B", "O", "O", "K">>
    /\ did.out = "FAIL"
    /\ Covered(did.pre, did.argv) \cap did.preheld # {}
    /\ did.held = did.preheld
    /\ Cardinality(did.held) = 2

====
